---------------------------- MODULE Spec2Model ----------------------------
(***************************************************************************)
(* The Telegram forwarding bot of src/main.go as a state machine.          *)
(*                                                                         *)
(* The process reads config.json (loadConfig), exits on a validation       *)
(* error (log.Fatal) and otherwise runs the update loop of main(): every   *)
(* update is handed to handleChannelPost or handleMessage, which decide    *)
(* from the loaded Config whether to call forwardMessage.                  *)
(*                                                                         *)
(* Strings that the code inspects character by character (usernames) are   *)
(* sequences of one-character strings, so that strings.TrimPrefix and      *)
(* strings.EqualFold are computed, not assumed.  A []int64 of user ids is  *)
(* a set: the code only ranges over it looking for one id and takes its    *)
(* len.                                                                    *)
(***************************************************************************)
EXTENDS Integers, Sequences, FiniteSets, TLC

VARIABLES
    rawConfig,   \* the parsed content of config.json, as written by the user
    pc,          \* "start" | "running" (in the update loop) | "fatal" (log.Fatal)
    config,      \* the *Config returned by loadConfig, NoConfig for nil
    loadErr,     \* the error returned by loadConfig, NoError for nil
    update,      \* the update handled last, NoUpdate before the first
    matched,     \* index of the source whose branch called forwardMessage, 0 if none
    calls,       \* the bot.Send requests made while handling `update`, in order
    failedBefore \* a forward made for an EARLIER update returned an error

vars == <<rawConfig, pc, config, loadErr, update, matched, calls, failedBefore>>

----------------------------------------------------------------------------
(* Bounds of the model *)

MaxSources == 2    \* longest "sources" list of a configuration
MaxChatId == 2     \* chat ids are 1..MaxChatId; 0 is Go's zero value (field absent)
MaxUserId == 2     \* user ids are 1..MaxUserId
MaxMsgId == 1      \* message ids are 1..MaxMsgId
MaxFilterLen == 1  \* longest user_ids list of a source

NoConfig == [nil |-> TRUE]
NoError == [nil |-> TRUE]
NoUpdate == [kind |-> "none"]
NoTopic == 0       \* a topic field that is absent
NoUser == 0        \* From of a channel post (absent)

EmptyStr == << >>

----------------------------------------------------------------------------
(* strings *)

\* strings.TrimPrefix(s, "@"): s without ONE leading "@", s itself otherwise
TrimPrefix(s) == IF Len(s) > 0 /\ s[1] = "@" THEN Tail(s) ELSE s

\* simple case folding of one character, as strings.EqualFold applies it
FoldChar(c) ==
    CASE c = "F" -> "f"
      [] c = "G" -> "g"
      [] OTHER -> c

\* variant: byte-wise equality in place of strings.EqualFold
EqualFoldExact(s, t) == s = t
\* strings.EqualFold(s, t)
EqualFold(s, t) ==
    /\ Len(s) = Len(t)
    /\ \A i \in 1..Len(s) : FoldChar(s[i]) = FoldChar(t[i])

----------------------------------------------------------------------------
(* config.json *)

Src(t, i, u, us, tp) ==
    [type |-> t, id |-> i, username |-> u, user_ids |-> us, target_topic |-> tp]

ChatIds == 1..MaxChatId
UserIds == 1..MaxUserId
SourceTopics == {NoTopic, 1}
GlobalTopics == {NoTopic, 2}
TargetChannelIds == {MaxChatId + 1}

\* usernames a configuration may give, and usernames a chat may carry
ConfigNames == {EmptyStr, <<"@">>, <<"@", "f">>}
ChatNames == {EmptyStr, <<"F">>}

\* the user id lists a source may carry
Filters == {us \in SUBSET UserIds : Cardinality(us) <= MaxFilterLen}

\* the entries of "sources" a configuration is drawn from, by kind: the
\* fields each kind is documented with, present or absent (src/README.md,
\* src/config.yaml.example), and a public group that also names an id
RawSources ==
    {Src("channel", i, EmptyStr, {}, tp) : i \in {0, 1}, tp \in SourceTopics}
    \cup {Src("user", 0, EmptyStr, us, NoTopic) : us \in Filters}
    \cup {Src("user", 1, EmptyStr, {1}, NoTopic)}
    \cup {Src("group", i, EmptyStr, us, NoTopic) : i \in {0, 1}, us \in Filters}
    \cup {Src("public_group", i, u, us, NoTopic) :
            i \in {0, MaxChatId}, u \in ConfigNames, us \in Filters}
    \cup {Src("private_group", 1, EmptyStr, {1}, NoTopic)}

SourceLists == UNION {[1..n -> RawSources] : n \in 0..MaxSources}

RawConfigs ==
    [target_channel_id : TargetChannelIds, topic_id : GlobalTopics,
     sources : SourceLists]

----------------------------------------------------------------------------
(* loadConfig *)

\* the Source struct json.Unmarshal fills: target_topic is no field of it
Unmarshal(raw) ==
    [Type |-> raw.type, ID |-> raw.id, Username |-> raw.username,
     UserIDs |-> raw.user_ids]

\* "Clean up usernames (remove @ if present)"
CleanUp(s) ==
    IF s.Type \in {"group", "public_group"} /\ s.Username # EmptyStr
    THEN [s EXCEPT !.Username = TrimPrefix(s.Username)]
    ELSE s

\* variant: the switch without the user_ids tests of group and public_group
ValidateNoUserIds(s) ==
    CASE s.Type = "channel" -> IF s.ID = 0 THEN "missing required ID" ELSE ""
      [] s.Type = "group" -> IF s.ID = 0 THEN "missing required ID" ELSE ""
      [] s.Type = "public_group" ->
            IF s.Username = EmptyStr THEN "missing required username" ELSE ""
      [] s.Type = "user" ->
            IF s.UserIDs = {} THEN "missing required user_ids" ELSE ""
      [] OTHER -> "unknown source type"
\* the error the validation switch returns for one source, "" if it passes
Validate(s) ==
    CASE s.Type = "channel" -> IF s.ID = 0 THEN "missing required ID" ELSE ""
      [] s.Type = "group" ->
            IF s.ID = 0 THEN "missing required ID"
            ELSE IF s.UserIDs = {} THEN "missing required user_ids" ELSE ""
      [] s.Type = "public_group" ->
            IF s.Username = EmptyStr THEN "missing required username"
            ELSE IF s.UserIDs = {} THEN "missing required user_ids" ELSE ""
      [] s.Type = "user" ->
            IF s.UserIDs = {} THEN "missing required user_ids" ELSE ""
      [] OTHER -> "unknown source type"

\* the validation loop: the error of the first source that fails, with its
\* index (0-based, as the code prints it)
RECURSIVE ValidateFrom(_, _)
ValidateFrom(sources, i) ==
    IF i > Len(sources) THEN NoError
    ELSE IF Validate(sources[i]) # ""
         THEN [index |-> i - 1, type |-> sources[i].Type,
               msg |-> Validate(sources[i])]
         ELSE ValidateFrom(sources, i + 1)

\* loadConfig: <<config, err>>
LoadConfig(raw) ==
    LET sources == [i \in 1..Len(raw.sources) |-> CleanUp(Unmarshal(raw.sources[i]))]
        err == ValidateFrom(sources, 1)
    IN  IF err # NoError
        THEN <<NoConfig, err>>
        ELSE <<[TargetChannelID |-> raw.target_channel_id, Sources |-> sources],
               NoError>>

----------------------------------------------------------------------------
(* updates *)

\* the command a message starts with, "" when IsCommand() is false
Commands == {"", "start", "help", "id", "echo"}

Msg(t, c, u, f, m, cmd) ==
    [ChatType |-> t, ChatID |-> c, ChatUserName |-> u, FromID |-> f,
     MessageID |-> m, Command |-> cmd]

\* update.ChannelPost: a post of a channel, which carries no From
ChannelPosts ==
    {[kind |-> "channel_post", msg |-> Msg("channel", c, EmptyStr, NoUser, m, cmd)] :
        c \in ChatIds, m \in 1..MaxMsgId, cmd \in {"", "start"}}

\* update.Message: a direct message or a message in a group or supergroup,
\* which always carries a From
Messages ==
    {[kind |-> "message", msg |-> Msg(t, c, u, f, m, "")] :
        t \in {"private", "group", "supergroup"}, c \in ChatIds, u \in ChatNames,
        f \in UserIds, m \in 1..MaxMsgId}
    \cup
    {[kind |-> "message", msg |-> Msg(t, 1, EmptyStr, 1, m, cmd)] :
        t \in {"private", "supergroup"}, m \in 1..MaxMsgId, cmd \in Commands \ {""}}

IsCommand(m) == m.Command # ""

----------------------------------------------------------------------------
(* requests sent through bot.Send *)

\* tgbotapi.NewForward(targetID, fromChatID, messageID): the request names no
\* topic (message_thread_id), which is what NoTopic stands for
NewForward(targetID, fromChatID, messageID) ==
    [method |-> "forwardMessage", chat_id |-> targetID,
     from_chat_id |-> fromChatID, message_id |-> messageID,
     message_thread_id |-> NoTopic]

\* the text handleCommand answers with
CommandText(cmd) ==
    CASE cmd = "start" -> "welcome"
      [] cmd = "help" -> "commands"
      [] cmd = "id" -> "chat information"
      [] OTHER -> "unknown command"

\* tgbotapi.NewMessage(chatID, text)
NewMessage(chatID, text) ==
    [method |-> "sendMessage", chat_id |-> chatID, text |-> text]

\* what a handler did: the source that made it forward (0: none), the requests
\* it sent with their outcomes, and whether it ended the process
Nothing == [matched |-> 0, calls |-> << >>, fatal |-> FALSE]

\* variant: a failed bot.Send is sent once more
ForwardMessageRetry(targetID, fromChatID, messageID, ok) ==
    LET req == NewForward(targetID, fromChatID, messageID)
    IN  [calls |-> IF ok THEN <<[req |-> req, ok |-> TRUE]>>
                   ELSE <<[req |-> req, ok |-> FALSE], [req |-> req, ok |-> TRUE]>>,
         fatal |-> FALSE]
\* forwardMessage: one bot.Send; an error is logged (log.Printf) and dropped
ForwardMessage(targetID, fromChatID, messageID, ok) ==
    [calls |-> <<[req |-> NewForward(targetID, fromChatID, messageID), ok |-> ok]>>,
     fatal |-> FALSE]

\* a handler's branch for source i that calls forwardMessage and returns
ForwardFor(cfg, i, m, ok) ==
    LET f == ForwardMessage(cfg.TargetChannelID, m.ChatID, m.MessageID, ok)
    IN  [matched |-> i, calls |-> f.calls, fatal |-> f.fatal]

\* handleCommand: one reply to the chat the command came from
HandleCommand(m, ok) ==
    [matched |-> 0,
     calls |-> <<[req |-> NewMessage(m.ChatID, CommandText(m.Command)), ok |-> ok]>>,
     fatal |-> FALSE]

----------------------------------------------------------------------------
(* handleChannelPost *)

\* the test of the loop over config.Sources
IsMonitoredChannel(source, post) ==
    source.Type = "channel" /\ post.ChatID = source.ID

RECURSIVE ChannelScan(_, _, _, _)
ChannelScan(cfg, i, post, ok) ==
    IF i > Len(cfg.Sources) THEN Nothing
    ELSE IF IsMonitoredChannel(cfg.Sources[i], post)
         THEN ForwardFor(cfg, i, post, ok)      \* forward, then break
         ELSE ChannelScan(cfg, i + 1, post, ok)

\* variant: posts that are commands are skipped, as handleMessage skips them
HandleChannelPostNoCommands(cfg, post, ok) ==
    IF IsCommand(post) THEN Nothing ELSE ChannelScan(cfg, 1, post, ok)
HandleChannelPost(cfg, post, ok) == ChannelScan(cfg, 1, post, ok)

----------------------------------------------------------------------------
(* handleMessage *)

\* variant: the sender is not looked up
UserListedAlways(source, m) == TRUE
\* the loop over the user ids of one source
UserListed(source, m) == m.FromID \in source.UserIDs

\* variant: the direct-message branch without the return after its forward
RECURSIVE PrivateScanNoReturn(_, _, _, _)
PrivateScanNoReturn(cfg, i, m, ok) ==
    IF i > Len(cfg.Sources) THEN Nothing
    ELSE LET rest == PrivateScanNoReturn(cfg, i + 1, m, ok)
         IN  IF cfg.Sources[i].Type = "user" /\ UserListed(cfg.Sources[i], m)
             THEN [matched |-> i,
                   calls |-> ForwardFor(cfg, i, m, ok).calls \o rest.calls,
                   fatal |-> rest.fatal]
             ELSE rest
\* the direct-message branch: the first "user" source listing the sender
RECURSIVE PrivateScan(_, _, _, _)
PrivateScan(cfg, i, m, ok) ==
    IF i > Len(cfg.Sources) THEN Nothing
    ELSE IF cfg.Sources[i].Type = "user" /\ UserListed(cfg.Sources[i], m)
         THEN ForwardFor(cfg, i, m, ok)
         ELSE PrivateScan(cfg, i + 1, m, ok)

\* isMatchingGroup of the group branch
IsMatchingGroup(source, m) ==
    IF source.ID # 0 /\ m.ChatID = source.ID
    THEN TRUE
    ELSE LET messageUsername == TrimPrefix(m.ChatUserName)
             configUsername == TrimPrefix(source.Username)
         IN  configUsername # EmptyStr /\ EqualFold(messageUsername, configUsername)

\* variant: the group branch without its source.Type test
IsGroupSourceAny(source) == TRUE
\* the sources the group branch looks at
IsGroupSource(source) == source.Type \in {"group", "public_group"}

\* variant: the group branch going on to the next source when the source
\* for this chat does not list the sender
RECURSIVE GroupScanFallThrough(_, _, _, _)
GroupScanFallThrough(cfg, i, m, ok) ==
    IF i > Len(cfg.Sources) THEN Nothing
    ELSE IF /\ IsGroupSource(cfg.Sources[i])
            /\ IsMatchingGroup(cfg.Sources[i], m)
            /\ UserListed(cfg.Sources[i], m)
         THEN ForwardFor(cfg, i, m, ok)
         ELSE GroupScanFallThrough(cfg, i + 1, m, ok)
\* the group branch: the first source for this chat decides, whether or not
\* it lists the sender
RECURSIVE GroupScan(_, _, _, _)
GroupScan(cfg, i, m, ok) ==
    IF i > Len(cfg.Sources) THEN Nothing
    ELSE IF IsGroupSource(cfg.Sources[i]) /\ IsMatchingGroup(cfg.Sources[i], m)
         THEN IF UserListed(cfg.Sources[i], m)
              THEN ForwardFor(cfg, i, m, ok)
              ELSE Nothing                       \* "not monitored in this group"
         ELSE GroupScan(cfg, i + 1, m, ok)

\* variant: handleMessage without its IsCommand test
HandleMessageNoCommands(cfg, m, ok) ==
    IF m.ChatType = "private" THEN PrivateScan(cfg, 1, m, ok)
    ELSE IF m.ChatType \in {"group", "supergroup"} THEN GroupScan(cfg, 1, m, ok)
    ELSE Nothing
HandleMessage(cfg, m, ok) ==
    IF IsCommand(m) THEN HandleCommand(m, ok)
    ELSE IF m.ChatType = "private" THEN PrivateScan(cfg, 1, m, ok)
    ELSE IF m.ChatType \in {"group", "supergroup"} THEN GroupScan(cfg, 1, m, ok)
    ELSE Nothing

----------------------------------------------------------------------------
(* main *)

IsForward(c) == c.req.method = "forwardMessage"
Forwards(cs) == SelectSeq(cs, IsForward)
SomeForwardFailed(cs) == \E i \in 1..Len(cs) : IsForward(cs[i]) /\ ~cs[i].ok

Init ==
    /\ rawConfig \in RawConfigs
    /\ pc = "start"
    /\ config = NoConfig
    /\ loadErr = NoError
    /\ update = NoUpdate
    /\ matched = 0
    /\ calls = << >>
    /\ failedBefore = FALSE

\* loadConfig returned an error: log.Fatal(err)
StartupFatal ==
    /\ pc = "start"
    /\ LoadConfig(rawConfig)[2] # NoError
    /\ loadErr' = LoadConfig(rawConfig)[2]
    /\ config' = LoadConfig(rawConfig)[1]
    /\ pc' = "fatal"
    /\ UNCHANGED <<rawConfig, update, matched, calls, failedBefore>>

\* loadConfig returned the configuration: main enters the update loop
StartupRun ==
    /\ pc = "start"
    /\ LoadConfig(rawConfig)[2] = NoError
    /\ loadErr' = NoError
    /\ config' = LoadConfig(rawConfig)[1]
    /\ pc' = "running"
    /\ UNCHANGED <<rawConfig, update, matched, calls, failedBefore>>

\* one turn of "for update := range updates" with update.ChannelPost set;
\* ok is what bot.Send returns
ReceiveChannelPost ==
    /\ pc = "running"
    /\ \E u \in ChannelPosts, ok \in BOOLEAN :
          LET r == HandleChannelPost(config, u.msg, ok)
          IN  /\ update' = u
              /\ matched' = r.matched
              /\ calls' = r.calls
              /\ pc' = IF r.fatal THEN "fatal" ELSE "running"
    /\ failedBefore' = (failedBefore \/ SomeForwardFailed(calls))
    /\ UNCHANGED <<rawConfig, config, loadErr>>

\* one turn of the loop with update.Message set
ReceiveMessage ==
    /\ pc = "running"
    /\ \E u \in Messages, ok \in BOOLEAN :
          LET r == HandleMessage(config, u.msg, ok)
          IN  /\ update' = u
              /\ matched' = r.matched
              /\ calls' = r.calls
              /\ pc' = IF r.fatal THEN "fatal" ELSE "running"
    /\ failedBefore' = (failedBefore \/ SomeForwardFailed(calls))
    /\ UNCHANGED <<rawConfig, config, loadErr>>

Next == StartupFatal \/ StartupRun \/ ReceiveChannelPost \/ ReceiveMessage

Spec == Init /\ [][Next]_vars

----------------------------------------------------------------------------
(* Properties.  Handled: the loop has handled `update` and is back at its   *)
(* head.                                                                    *)

Handled == pc # "start" /\ update # NoUpdate
HandledGroupMessage ==
    Handled /\ update.kind = "message"
            /\ update.msg.ChatType \in {"group", "supergroup"}
Forwarded == Forwards(calls) # << >>
Requests(cs) == [i \in 1..Len(cs) |-> cs[i].req]
Min(S) == CHOOSE x \in S : \A y \in S : x <= y

\* both tests of a group rule: the chat is the rule's and the sender is listed
BothTests(source, m) ==
    /\ source.Type \in {"group", "public_group"}
    /\ IsMatchingGroup(source, m)
    /\ m.FromID \in source.UserIDs
SatisfyingRules(cfg, m) ==
    {i \in 1..Len(cfg.Sources) : BothTests(cfg.Sources[i], m)}

\* C1: a non-command message of a group or supergroup is matched by the first
\* rule, in configured order, that passes both the chat-identity and the
\* sender-filter test, is unmatched only if no rule passes both, and so is
\* forwarded exactly when some rule passes both.
C1_FirstSatisfyingRuleWins ==
    (HandledGroupMessage /\ ~IsCommand(update.msg)) =>
        LET S == SatisfyingRules(config, update.msg)
        IN  /\ matched = (IF S = {} THEN 0 ELSE Min(S))
            /\ (Forwarded <=> S # {})

\* a channel rule for the chat of the update
ChannelRuleFor(cfg, m) ==
    \E i \in 1..Len(cfg.Sources) :
        cfg.Sources[i].Type = "channel" /\ cfg.Sources[i].ID = m.ChatID
ForwardedToTarget ==
    /\ Len(Forwards(calls)) = 1
    /\ Forwards(calls)[1].req.chat_id = config.TargetChannelID
    /\ Forwards(calls)[1].req.from_chat_id = update.msg.ChatID

\* C2 as claimed: every non-private message event whose chat id is that of a
\* configured channel rule is forwarded to the target, whatever the sender and
\* the other rules.
C2_ChannelRuleForwardsEveryEvent ==
    (Handled /\ update.msg.ChatType # "private"
             /\ ChannelRuleFor(config, update.msg)) => ForwardedToTarget

\* C2 as amended: every channel-post event whose chat id is that of a
\* configured channel rule is forwarded to the target, whatever the sender and
\* the other rules.
C2_ChannelRuleForwardsEveryPost ==
    (Handled /\ update.kind = "channel_post"
             /\ ChannelRuleFor(config, update.msg)) => ForwardedToTarget

\* a post that is a command, forwarded for a channel rule that stands second
\* in the list
C2_Witness ==
    /\ Handled /\ update.kind = "channel_post"
    /\ IsCommand(update.msg)
    /\ matched = 2 /\ config.Sources[1].Type = "public_group"
    /\ ForwardedToTarget

\* C3: a user rule matches only private messages whose sender it lists; with a
\* list of user rules only, a message is forwarded exactly when its chat is
\* private, it is no command and some rule lists its sender.
C3_UserRulesMatchPrivateOnly ==
    Handled =>
        /\ (matched # 0 /\ config.Sources[matched].Type = "user") =>
                /\ update.kind = "message"
                /\ update.msg.ChatType = "private"
                /\ update.msg.FromID \in config.Sources[matched].UserIDs
        /\ (\A i \in 1..Len(config.Sources) : config.Sources[i].Type = "user") =>
                (Forwarded <=>
                    /\ update.kind = "message"
                    /\ update.msg.ChatType = "private"
                    /\ ~IsCommand(update.msg)
                    /\ \E i \in 1..Len(config.Sources) :
                          update.msg.FromID \in config.Sources[i].UserIDs)

\* two user rules, the second of which lists the sender of a direct message
C3_Witness ==
    /\ Handled /\ Len(config.Sources) = 2
    /\ \A i \in 1..2 : config.Sources[i].Type = "user"
    /\ update.msg.ChatType = "private"
    /\ matched = 2 /\ Forwarded

\* the chat of a message is the chat of a rule: the ids are equal, or the
\* usernames are equal without regard to case and to a leading "@"
Lower(s) ==
    [i \in 1..Len(s) |-> CASE s[i] = "F" -> "f" [] s[i] = "G" -> "g" [] OTHER -> s[i]]
StripAt(s) == IF s # << >> /\ Head(s) = "@" THEN SubSeq(s, 2, Len(s)) ELSE s
ChatIsRules(source, m) ==
    \/ source.ID # 0 /\ source.ID = m.ChatID
    \/ /\ StripAt(source.Username) # << >>
       /\ Lower(StripAt(source.Username)) = Lower(StripAt(m.ChatUserName))
RulesForChat(cfg, m) ==
    {i \in 1..Len(cfg.Sources) :
        cfg.Sources[i].Type \in {"group", "public_group"}
        /\ ChatIsRules(cfg.Sources[i], m)}

\* C4: a group message is forwarded only for a group or public_group rule
\* whose chat is the message's chat and whose user id list holds the sender; a
\* message whose sender no rule for its chat lists is not forwarded.
C4_ForwardedOnlyIfChatAndSender ==
    HandledGroupMessage =>
        /\ Forwarded =>
                /\ matched \in RulesForChat(config, update.msg)
                /\ update.msg.FromID \in config.Sources[matched].UserIDs
        /\ (\A i \in RulesForChat(config, update.msg) :
                update.msg.FromID \notin config.Sources[i].UserIDs) => ~Forwarded

\* a message forwarded for a rule that names its chat by username only, the
\* two usernames differing in case
C4_Witness ==
    /\ HandledGroupMessage /\ Forwarded
    /\ config.Sources[matched].ID # update.msg.ChatID
    /\ config.Sources[matched].Username # update.msg.ChatUserName

\* the three spellings of one username: "Foo", "foo", "@foo"
Spellings == {<<"F">>, <<"f">>, <<"@", "f">>}

\* what the program does with update u when started on configuration raw
Decision(raw, u) ==
    LET l == LoadConfig(raw)
    IN  IF l[2] # NoError THEN [matched |-> 0, calls |-> << >>, fatal |-> TRUE]
        ELSE HandleMessage(l[1], u.msg, TRUE)

\* C5: the match decision is the same whichever of the three spellings the
\* configured username of a rule has and whichever the chat username of the
\* message has, in every combination.
C5_UsernameSpellingsEquivalent ==
    HandledGroupMessage =>
        \A i \in 1..Len(rawConfig.sources) :
            rawConfig.sources[i].type \in {"group", "public_group"} =>
                \A a \in Spellings, x \in Spellings :
                    Decision([rawConfig EXCEPT !.sources[i].username = a],
                             [update EXCEPT !.msg.ChatUserName = x])
                    = Decision([rawConfig EXCEPT !.sources[i].username = <<"f">>],
                               [update EXCEPT !.msg.ChatUserName = <<"f">>])

\* a message forwarded for a public group matched by username, where the
\* spellings decide the match
C5_Witness ==
    /\ HandledGroupMessage /\ Forwarded
    /\ config.Sources[matched].Type = "public_group"
    /\ config.Sources[matched].ID = 0
    /\ rawConfig.sources[matched].username = <<"@", "f">>
    /\ update.msg.ChatUserName = <<"F">>

\* C6 as claimed: a command is never matched against the rules and never
\* forwarded, whatever the kind of event (direct message, group message,
\* channel post) and the rule list.
C6_CommandNeverForwarded ==
    (Handled /\ IsCommand(update.msg)) => (matched = 0 /\ ~Forwarded)

\* C6 as amended: a command that arrives as a message (direct or group) is
\* never matched against the rules and never forwarded; a channel post is
\* matched without regard to its being a command.
C6_CommandMessageNeverForwarded ==
    (Handled /\ update.kind = "message" /\ IsCommand(update.msg)) =>
        (matched = 0 /\ ~Forwarded)

\* a command message answered and not forwarded, which a rule would have
\* matched had it not been a command
C6_Witness ==
    /\ Handled /\ update.kind = "message" /\ IsCommand(update.msg)
    /\ HandleMessage(config, [update.msg EXCEPT !.Command = ""], TRUE).matched # 0
    /\ Len(calls) = 1 /\ calls[1].req.method = "sendMessage"

\* the topic the configuration file asks for, for the rule at index i:
\* target_topic of the rule, else the global topic_id, else none
ResolveTopic(raw, i) ==
    IF raw.sources[i].target_topic # NoTopic THEN raw.sources[i].target_topic
    ELSE IF raw.topic_id # NoTopic THEN raw.topic_id
    ELSE NoTopic

\* C7: every forward of a matched message goes to the matched rule's
\* target_topic if set, else to the global topic_id if set, else to no topic.
C7_TopicPrecedence ==
    Handled =>
        \A k \in 1..Len(calls) :
            IsForward(calls[k]) =>
                calls[k].req.message_thread_id = ResolveTopic(rawConfig, matched)

\* the rules the claim calls offending: a channel or (private) group rule
\* without chat id, a public_group rule without username, a user rule without
\* sender filter, a rule of unknown kind
KnownKinds == {"channel", "group", "public_group", "user"}
OffendingAsClaimed(r) ==
    \/ r.type \in {"channel", "group", "private_group"} /\ r.id = 0
    \/ r.type = "public_group" /\ r.username = << >>
    \/ r.type = "user" /\ r.user_ids = {}
    \/ r.type \notin KnownKinds

\* ... and those of the amended claim: also a group or public_group rule
\* without user ids, and a public_group rule whose username is only "@"
OffendingAsAmended(r) ==
    \/ OffendingAsClaimed(r)
    \/ r.type \in {"group", "public_group"} /\ r.user_ids = {}
    \/ r.type = "public_group" /\ r.username = <<"@">>

\* C8 as claimed: if some rule is offending, loading fails with an error that
\* carries the index of the first offending rule, and returns no rule set.
C8_LoadFailsAtFirstOffending ==
    LET bad == {i \in 1..Len(rawConfig.sources) :
                    OffendingAsClaimed(rawConfig.sources[i])}
    IN  (pc # "start" /\ bad # {}) =>
            /\ pc = "fatal" /\ config = NoConfig
            /\ loadErr # NoError /\ loadErr.index = Min(bad) - 1

\* C8 as amended: the same, where a group or public_group rule without user
\* ids and a public_group rule whose username is empty once a leading "@" is
\* removed are offending too.
C8_LoadFailsAtFirstInvalid ==
    LET bad == {i \in 1..Len(rawConfig.sources) :
                    OffendingAsAmended(rawConfig.sources[i])}
    IN  (pc # "start" /\ bad # {}) =>
            /\ pc = "fatal" /\ config = NoConfig
            /\ loadErr # NoError /\ loadErr.index = Min(bad) - 1

\* loading failed at the second rule, a group without user ids, the first
\* rule being valid
C8_Witness ==
    /\ pc = "fatal" /\ config = NoConfig /\ loadErr # NoError
    /\ loadErr.index = 1 /\ loadErr.msg = "missing required user_ids"
    /\ rawConfig.sources[2].type = "group"

\* C9: a failed forward is not retried and does not end the loop, and an
\* update that follows a failed forward is handled as it would have been had
\* the forward succeeded: the same rule matches and the same requests go out.
C9_ForwardFailureNotFatalNotRetried ==
    Handled =>
        /\ pc = "running"
        /\ Len(Forwards(calls)) <= 1
        /\ (failedBefore \/ SomeForwardFailed(calls)) =>
                LET r == IF update.kind = "channel_post"
                         THEN HandleChannelPost(config, update.msg, TRUE)
                         ELSE HandleMessage(config, update.msg, TRUE)
                IN  matched = r.matched /\ Requests(calls) = Requests(r.calls)

\* after a forward failed for an earlier update, a later update is forwarded
C9_Witness ==
    /\ Handled /\ pc = "running" /\ failedBefore
    /\ Len(Forwards(calls)) = 1 /\ calls[1].ok

\* C10: for a group rule with both a chat id and a username, the chat id
\* decides: the rule matches a message only if the chat ids are equal, also
\* when the usernames are equal.
C10_ChatIdTakesPrecedence ==
    (HandledGroupMessage /\ matched # 0) =>
        LET rule == config.Sources[matched]
        IN  (rule.ID # 0 /\ rule.Username # << >>) => update.msg.ChatID = rule.ID

\* C11: when the first rule, in configured order, whose chat is the chat of a
\* group message does not list the sender, the message is dropped: no later
\* rule is looked at and nothing is sent, even if a later rule for the chat
\* lists the sender.
C11_FirstRuleForChatDecides ==
    (HandledGroupMessage /\ ~IsCommand(update.msg)) =>
        LET R == RulesForChat(config, update.msg)
        IN  (R # {} /\ update.msg.FromID \notin config.Sources[Min(R)].UserIDs) =>
                (matched = 0 /\ calls = << >>)

\* a dropped group message whose sender the second rule for its chat lists
C11_Witness ==
    /\ HandledGroupMessage /\ ~IsCommand(update.msg)
    /\ RulesForChat(config, update.msg) = {1, 2}
    /\ update.msg.FromID \notin config.Sources[1].UserIDs
    /\ update.msg.FromID \in config.Sources[2].UserIDs
    /\ matched = 0 /\ calls = << >>

\* the rules that match an update: for a post the channel rules of its chat,
\* for a direct message the user rules listing its sender, for a group
\* message the group rules of its chat listing its sender
MatchingRules(cfg, u) ==
    {i \in 1..Len(cfg.Sources) :
        LET r == cfg.Sources[i]
        IN  IF u.kind = "channel_post"
            THEN r.Type = "channel" /\ r.ID = u.msg.ChatID
            ELSE IF u.msg.ChatType = "private"
            THEN r.Type = "user" /\ u.msg.FromID \in r.UserIDs
            ELSE /\ r.Type \in {"group", "public_group"}
                 /\ ChatIsRules(r, u.msg)
                 /\ u.msg.FromID \in r.UserIDs}

\* C12: an update causes at most one forward, also when several rules match
\* it; the forward is addressed to the configured target_channel_id and
\* carries the chat id and the message id of the update.
C12_AtMostOneForwardOfTheEvent ==
    Handled =>
        /\ Len(Forwards(calls)) <= 1
        /\ \A k \in 1..Len(calls) :
              IsForward(calls[k]) =>
                /\ calls[k].req.chat_id = rawConfig.target_channel_id
                /\ calls[k].req.from_chat_id = update.msg.ChatID
                /\ calls[k].req.message_id = update.msg.MessageID

\* one forward for a group message that two rules match, the first naming
\* the chat by id and the second by username
C12_Witness ==
    /\ HandledGroupMessage
    /\ MatchingRules(config, update) = {1, 2}
    /\ config.Sources[1].ID = update.msg.ChatID
    /\ config.Sources[2].ID # update.msg.ChatID
    /\ Len(Forwards(calls)) = 1 /\ Len(calls) = 1

=============================================================================
